---- MODULE Spec2Model ----
(***************************************************************************)
(* Model of the lazy (chunk-fed, resumable) tokenizer of                   *)
(* libs/mini-lexer.c: Milexer.next == __next_token_lazy, its helpers       *)
(* __handle_delims, __handle_puncs, __handle_expression and                *)
(* __handle_token_id, and the caller loop of the example driver            *)
(* (NEXT_NEED_LOAD -> SET_SLICE / END_SLICE).                              *)
(*                                                                         *)
(* Bytes are integers 0..255.  C strings of the configuration are          *)
(* sequences of non-zero bytes.  The input line buffer and the token       *)
(* buffer live in one flat byte memory `mem`, addressed by integers, so    *)
(* that pointer comparisons, aliasing and out-of-bounds stores are the     *)
(* ones of the C code.                                                     *)
(***************************************************************************)
EXTENDS Integers, Sequences, FiniteSets, TLC

VARIABLES
  ml,      \* Milexer configuration: puncs, keywords, expression, delim_ranges
  flags,   \* parsing flags passed to every call of next()
  src,     \* Milexer_Slice
  tk,      \* Milexer_Token (cstr is an address into mem)
  mem,     \* byte memory holding the line buffer and the token buffer
  input,   \* whole input the caller is going to feed
  pos,     \* number of input bytes already handed over with SET_SLICE
  ret,     \* status returned by the last call of next() ("NONE" before any)
  out,     \* tokens and fragments the caller has received so far
  ev,      \* observation: one entry per input byte consumed so far, with
           \* the way the tokenizer classified it
  oob,     \* observation: some store into the token buffer went outside
           \* the len+1 bytes the caller allocated
  tape,      \* DS/tape_mem.c: the Tape (len, cap, data)
  tape_data, \* DS/tape_mem.c: what was written into the memory behind tape.data
  appended,  \* observation: the buffers tape_append accepted, in order
  data_at,   \* DS/tape_mem.c: outcome of the last tape_get (n: the number
             \* of buffers on the tape when it was called)
  code,      \* codeM/codeM.c: char code[CODEM_BUF_LEN] of the caller
  code_hist, \* observation: the buffer at the start and after every
             \* codem_set_ctrl_digit
  valid,     \* codeM/codeM.c: what codem_isvalidn returned for the buffer as
             \* it is now, if it was called
  arena,     \* arena.c: the Arena (head, cursor) and its list of regions
  returned,  \* observation: what every arena_alloc / arena_alloc2 returned
  afault,    \* arena.c: a store through an invalid pointer ended the program
  opt,       \* utils/permugen.c: struct Opt (seeds, prefix, separator, suffix)
  depth,     \* utils/permugen.c: argument of perm
  idxs,      \* utils/permugen.c: int idxs[depth] of perm
  perm_pc,   \* utils/permugen.c: where perm is (Perm_Loop, carry, return)
  outf,      \* utils/permugen.c: the bytes written to opt->outf
  tuples     \* observation: idxs at every line perm has written

lexer_vars == <<ml, flags, src, tk, mem, input, pos, ret, out, ev, oob>>
tape_vars == <<tape, tape_data, appended, data_at>>
codem_vars == <<code, code_hist, valid>>
arena_vars == <<arena, returned, afault>>
perm_vars == <<opt, depth, idxs, perm_pc, outf, tuples>>
\* everything the lexer never touches
other_vars == <<tape_vars, codem_vars, arena_vars, perm_vars>>

vars == <<lexer_vars, other_vars>>

(***************************************************************************)
(* Bounds of the model                                                     *)
(***************************************************************************)
MaxInLen == 4       \* longest input of the general specification
MaxMisuseLen == 2   \* longest input of the runs with a misused token buffer

(***************************************************************************)
(* Program constants                                                       *)
(***************************************************************************)
NULL == 0

\* the objects of a program that is not the one running
TapeIdle ==
  /\ tape = [len |-> 0, cap |-> 0, data |-> NULL]
  /\ tape_data = {}
  /\ appended = <<>>
  /\ data_at = [index |-> 0, n |-> 0, ret |-> "NONE", off |-> 0]

CodemIdle ==
  /\ code = <<>>
  /\ code_hist = <<>>
  /\ valid = [called |-> FALSE, ret |-> 0]

LexerIdle ==
  /\ ml = [puncs |-> <<>>, keywords |-> <<>>, expression |-> <<>>,
           delim_ranges |-> <<>>]
  /\ flags = 0
  /\ src = [eof_lazy |-> FALSE, state |-> "SYN_DUMMY", prev_state |-> "SYN_DUMMY",
            buffer |-> NULL, cap |-> 0, idx |-> 0,
            last_exp_idx |-> 0, last_punc_idx |-> 0]
  /\ tk = [type |-> "TK_NOT_SET", id |-> 0, idx |-> 0, len |-> 0, cstr |-> NULL]
  /\ mem = <<>>
  /\ input = <<>>
  /\ pos = 0
  /\ ret = "NONE"
  /\ out = <<>>
  /\ ev = <<>>
  /\ oob = FALSE

ArenaIdle ==
  /\ arena = [regions |-> <<>>, head |-> NULL, cursor |-> NULL]
  /\ returned = <<>>
  /\ afault = FALSE

PermIdle ==
  /\ opt = [cseed |-> <<>>, wseed |-> <<>>, prefix |-> <<>>, separator |-> <<>>,
            suffix |-> <<>>]
  /\ depth = 0
  /\ idxs = <<>>
  /\ perm_pc = "none"
  /\ outf = <<>>
  /\ tuples = <<>>

OthersIdle == TapeIdle /\ CodemIdle /\ ArenaIdle /\ PermIdle

PFLAG_DEFAULT == 0
PFLAG_INEXP == 1
PFLAG_IGSPACE == 2
PFLAG_ALLDELIMS == 2
SPACE == 32
BACKSLASH == 92
Uninit == 255 + 1   \* content of memory that malloc returned and nobody wrote

HasFlag(f, bit) == (f \div bit) % 2 = 1

\* a plain `char` holding byte b, promoted to int (x86: char is signed)
SignedChar(b) == IF b >= 128 /\ b <= 255 THEN b - 256 ELSE b

(***************************************************************************)
(* libc on the flat memory                                                 *)
(***************************************************************************)
RECURSIVE strlen(_, _)
strlen(m, a) ==
  IF a \notin DOMAIN m \/ m[a] = 0 THEN 0 ELSE 1 + strlen(m, a + 1)

\* the C string that starts at address a
CStr(m, a) == [i \in 1..strlen(m, a) |-> m[a + i - 1]]

\* strncmp (s, a, Len(s)) == 0 for a configured string s (no zero byte in s)
strncmp(s, m, a) == \A i \in 1..Len(s) : m[a + i - 1] = s[i]

\* strstr (hay, needle): offset of the first occurrence, -1 for NULL
strstr(hay, needle) ==
  LET At(o) == \A i \in 1..Len(needle) : hay[o + i] = needle[i]
      Offs  == {o \in 0..(Len(hay) - Len(needle)) : At(o)}
  IN IF Offs = {} THEN -1 ELSE CHOOSE o \in Offs : \A q \in Offs : o <= q

(***************************************************************************)
(* The record L threaded through one call of next():                       *)
(*   src, tk, mem  the C objects,                                          *)
(*   ret           "NONE" while the call runs, then the returned status,   *)
(*   oob           a store went outside the len+1 bytes of the token,      *)
(*   ev            one entry per consumed byte: how it was classified.     *)
(***************************************************************************)
LD_STATE(L) == [L EXCEPT !.src.state = L.src.prev_state]

ST_STATE(L, new_state) ==
  [L EXCEPT !.src.prev_state = L.src.state, !.src.state = new_state]

\* res->cstr[i] = b
Store(L, i, b) ==
  [L EXCEPT !.mem[L.tk.cstr + i] = b,
            !.oob = L.oob \/ i > L.tk.len \/ i < 0]

\* mempcpy (res->cstr, s, strlen (s))
RECURSIVE mempcpy(_, _, _)
mempcpy(L, s, k) ==
  IF k > Len(s) THEN L ELSE mempcpy(Store(L, k - 1, s[k]), s, k + 1)

Return(L, status) == [L EXCEPT !.ret = status]

\* byte i (from 0) of a configured C string, its terminator included
CharAt(s, i) == IF i < Len(s) THEN s[i + 1] ELSE 0

__get_last_exp(m, s) == m.expression[s.last_exp_idx + 1]
__get_last_punc(m, s) == m.puncs[s.last_punc_idx + 1]

(***************************************************************************)
(* __handle_delims: the delimiter byte, or 0                               *)
(***************************************************************************)
InDelimRange(r, p) ==
  IF CharAt(r, 1) # 0
    THEN p >= SignedChar(CharAt(r, 0)) /\ p <= SignedChar(CharAt(r, 1))
    ELSE p = SignedChar(CharAt(r, 0))

\* mutant: the delimiter rules also apply in the escape and expression states
__handle_delims_Everywhere(m, s, p, f) ==
  IF Len(m.delim_ranges) = 0 \/ HasFlag(f, PFLAG_ALLDELIMS)
    THEN IF p < SPACE \/ (p = SPACE /\ ~HasFlag(f, PFLAG_IGSPACE))
           THEN p ELSE 0
    ELSE IF \E i \in 1..Len(m.delim_ranges) : InDelimRange(m.delim_ranges[i], p)
           THEN p ELSE 0

__handle_delims(m, s, p, f) ==
  IF s.state \in {"SYN_ESCAPE", "SYN_NO_DUMMY", "SYN_NO_DUMMY__"}
    THEN 0
    ELSE IF Len(m.delim_ranges) = 0 \/ HasFlag(f, PFLAG_ALLDELIMS)
      THEN IF p < SPACE \/ (p = SPACE /\ ~HasFlag(f, PFLAG_IGSPACE))
             THEN p ELSE 0
      ELSE IF \E i \in 1..Len(m.delim_ranges) : InDelimRange(m.delim_ranges[i], p)
             THEN p ELSE 0

(***************************************************************************)
(* __handle_puncs: [L, p] with p the offset of the match in the token      *)
(* buffer, -1 for NULL                                                     *)
(***************************************************************************)
\* mutant: the first matching entry wins, longer later entries are ignored
RECURSIVE PuncScan_FirstMatch(_, _, _, _)
PuncScan_FirstMatch(L, m, i, best) ==
  IF i >= Len(m.puncs) THEN best
  ELSE LET punc == m.puncs[i + 1]
           len  == Len(punc)
       IN IF L.tk.idx < len THEN PuncScan_FirstMatch(L, m, i + 1, best)
          ELSE IF strncmp(punc, L.mem, L.tk.cstr + L.tk.idx - len)
                  /\ best.idx = -1
            THEN PuncScan_FirstMatch(L, m, i + 1, [idx |-> i, len |-> len])
            ELSE PuncScan_FirstMatch(L, m, i + 1, best)

RECURSIVE PuncScan(_, _, _, _)
PuncScan(L, m, i, best) ==
  IF i >= Len(m.puncs) THEN best
  ELSE LET punc == m.puncs[i + 1]
           len  == Len(punc)
       IN IF L.tk.idx < len THEN PuncScan(L, m, i + 1, best)
          ELSE IF strncmp(punc, L.mem, L.tk.cstr + L.tk.idx - len)
                  /\ len >= best.len
            THEN PuncScan(L, m, i + 1, [idx |-> i, len |-> len])
            ELSE PuncScan(L, m, i + 1, best)

__handle_puncs(L, m) ==
  IF L.src.state \in {"SYN_ESCAPE", "SYN_NO_DUMMY", "SYN_NO_DUMMY__"}
    THEN [L |-> L, p |-> -1]
    ELSE LET best == PuncScan(L, m, 0, [idx |-> -1, len |-> 0])
         IN IF best.idx # -1
              THEN [L |-> [L EXCEPT !.src.last_punc_idx = best.idx,
                                    !.tk.id = best.idx],
                    p |-> L.tk.idx - best.len]
              ELSE [L |-> L, p |-> -1]

(***************************************************************************)
(* __handle_expression: [L, p] with p the offset of the marker, -1 = NULL  *)
(***************************************************************************)
RECURSIVE ExpScan(_, _, _)
ExpScan(L, m, i) ==
  IF i >= Len(m.expression) THEN [L |-> L, p |-> -1]
  ELSE LET p == strstr(CStr(L.mem, L.tk.cstr), m.expression[i + 1].begin)
       IN IF p # -1
            THEN IF p = 0 /\ L.src.state = "SYN_MIDDLE"
                   THEN [L |-> L, p |-> -1]
                   ELSE [L |-> [L EXCEPT !.src.last_exp_idx = i], p |-> p]
            ELSE ExpScan(L, m, i + 1)

__handle_expression(L0, m) ==
  LET L == Store(L0, L0.tk.idx, 0)
  IN CASE L.src.state = "SYN_ESCAPE" -> [L |-> L, p |-> L.tk.idx]
       [] L.src.state \in {"SYN_NO_DUMMY", "SYN_NO_DUMMY__"} ->
            LET e   == __get_last_exp(m, L.src)
                len == Len(e.end)
            IN IF L.tk.idx < len THEN [L |-> L, p |-> -1]
               ELSE IF strncmp(e.end, L.mem, L.tk.cstr + L.tk.idx - len)
                 THEN [L |-> [L EXCEPT !.tk.id = L.src.last_exp_idx],
                       p |-> L.tk.idx - len]
                 ELSE [L |-> L, p |-> -1]
       [] OTHER -> ExpScan(L, m, 0)

(***************************************************************************)
(* __handle_token_id                                                       *)
(***************************************************************************)
__handle_token_id(L, m) ==
  IF L.tk.type # "TK_KEYWORD" THEN L
  ELSE IF Len(m.keywords) > 0
    THEN LET content == CStr(L.mem, L.tk.cstr)
             hits == {i \in 1..Len(m.keywords) : m.keywords[i] = content}
         IN IF hits # {}
              THEN [L EXCEPT !.tk.id = (CHOOSE i \in hits : \A q \in hits : i <= q) - 1]
              ELSE [L EXCEPT !.tk.id = -1]
    ELSE L

(***************************************************************************)
(* __next_token_lazy                                                       *)
(*                                                                         *)
(* c describes the byte of the current loop iteration: b the byte, st the  *)
(* state it was consumed in, n the write index after it was stored, delim  *)
(* whether __handle_delims reported it.  An event also keeps now and exp,  *)
(* the state and __last_exp_idx once the byte was handled (before the      *)
(* chunk detection).  Note and the ret field of an event only observe the  *)
(* run, they never influence it.                                           *)
(***************************************************************************)
Note(L, c, cls) ==
  [L EXCEPT !.ev = Append(@, [b |-> c.b, st |-> c.st, n |-> c.n,
                              delim |-> c.delim, cls |-> cls, ret |-> "NONE",
                              now |-> L.src.state,
                              exp |-> L.src.last_exp_idx])]

\* return from inside the loop body, where the last event is the current byte
ReturnB(L, status) ==
  [L EXCEPT !.ret = status, !.ev[Len(L.ev)].ret = status]

\* "detect & reset chunks", the tail of the loop body
DetectChunk(L) ==
  IF L.tk.idx = L.tk.len
    THEN LET A == IF L.tk.type = "TK_NOT_SET"
                     \/ L.src.state = "SYN_DUMMY" \/ L.src.state = "SYN_DONE"
                    THEN [L EXCEPT !.tk.id = -1, !.tk.type = "TK_KEYWORD"]
                    ELSE L
             B == ST_STATE(A, "SYN_CHUNK")
             C == Store(B, B.tk.idx + 1, 0)
         IN ReturnB([C EXCEPT !.tk.idx = 0], "NEXT_CHUNK")
    ELSE IF L.src.state = "SYN_CHUNK" THEN LD_STATE(L) ELSE L

\* mutant: a punctuation next to other bytes is dropped instead of being
\* remembered for the next call
PuncFound_NoRecover(P, m, c) ==
  LET L   == P.L
      len == Len(__get_last_punc(m, L.src))
  IN IF len = L.tk.idx
       THEN LET A == ST_STATE(L, "SYN_DUMMY")
                B == Store([A EXCEPT !.tk.type = "TK_PUNCS"], A.tk.idx, 0)
            IN ReturnB(Note([B EXCEPT !.tk.idx = 0], c, "punc"), "NEXT_MATCH")
       ELSE LET A == ST_STATE(L, "SYN_DUMMY")
                B == Store(A, P.p, 0)
                C == [B EXCEPT !.tk.idx = 0, !.tk.type = "TK_KEYWORD"]
            IN ReturnB(Note(__handle_token_id(C, m), c, "punc"), "NEXT_MATCH")

\* "handling puncs": __handle_puncs found a match at offset P.p
PuncFound(P, m, c) ==
  LET L   == P.L
      len == Len(__get_last_punc(m, L.src))
  IN IF len = L.tk.idx
       THEN \* just a simple punc
            LET A == ST_STATE(L, "SYN_DUMMY")
                B == Store([A EXCEPT !.tk.type = "TK_PUNCS"], A.tk.idx, 0)
            IN ReturnB(Note([B EXCEPT !.tk.idx = 0], c, "punc"), "NEXT_MATCH")
       ELSE \* the punc have got some adjacents
            LET A == ST_STATE(L, "SYN_PUNC__")
                B == Store(A, P.p, 0)
                C == [B EXCEPT !.tk.idx = 0, !.tk.type = "TK_KEYWORD"]
            IN ReturnB(Note(__handle_token_id(C, m), c, "punc"), "NEXT_MATCH")

\* "handling expressions": __handle_expression returned the non-NULL H.p
ExpFound(H, m, f, c) ==
  LET L == [H.L EXCEPT !.tk.type = "TK_EXPRESSION"]
  IN CASE L.src.state = "SYN_ESCAPE" ->
            DetectChunk(Note(LD_STATE(L), c, "escaped"))
       [] L.src.state = "SYN_NO_DUMMY" ->
            LET A == IF HasFlag(f, PFLAG_INEXP) THEN Store(L, H.p, 0) ELSE L
                B == ST_STATE(A, "SYN_DONE")
                C == Store(B, B.tk.idx, 0)
            IN ReturnB(Note([C EXCEPT !.tk.idx = 0], c, "exp_end"), "NEXT_MATCH")
       [] OTHER ->
            IF H.p = 0
              THEN \* beginning of an expression
                   LET A == IF HasFlag(f, PFLAG_INEXP)
                              THEN [L EXCEPT !.tk.idx = 0] ELSE L
                   IN DetectChunk(Note(ST_STATE(A, "SYN_NO_DUMMY"), c, "exp_begin"))
              ELSE \* the expression is adjacent to another token
                   LET A == ST_STATE(L, "SYN_NO_DUMMY__")
                       B == Store(A, H.p, 0)
                       C == [B EXCEPT !.tk.idx = 0, !.tk.type = "TK_KEYWORD"]
                   IN ReturnB(Note(__handle_token_id(C, m), c, "exp_begin"),
                              "NEXT_MATCH")

\* mutant: a full token buffer is reported as a chunk before the punctuation
\* table is looked at
AfterDelims_ChunkFirst(L, m, f, c) ==
  IF L.tk.idx = L.tk.len
    THEN DetectChunk(Note(L, c, "plain"))
    ELSE LET H == __handle_expression(L, m)
         IN IF H.p # -1 THEN ExpFound(H, m, f, c)
            ELSE IF c.b = BACKSLASH
              THEN DetectChunk(Note(ST_STATE(H.L, "SYN_ESCAPE"), c, "escape"))
              ELSE LET P == __handle_puncs(H.L, m)
                   IN IF P.p # -1 THEN PuncFound(P, m, c)
                      ELSE DetectChunk(Note(P.L, c, "plain"))

\* the loop body after the delimiter block did not return
AfterDelims(L, m, f, c) ==
  LET H == __handle_expression(L, m)
  IN IF H.p # -1 THEN ExpFound(H, m, f, c)
     ELSE IF c.b = BACKSLASH
       THEN DetectChunk(Note(ST_STATE(H.L, "SYN_ESCAPE"), c, "escape"))
       ELSE LET P == __handle_puncs(H.L, m)
            IN IF P.p # -1 THEN PuncFound(P, m, c)
               ELSE DetectChunk(Note(P.L, c, "plain"))

\* one iteration of the for loop: consume one byte
LoopBody(L0, m, f) ==
  LET p  == L0.mem[L0.src.buffer + L0.src.idx]
      L1 == Store([L0 EXCEPT !.src.idx = @ + 1, !.tk.idx = @ + 1], L0.tk.idx, p)
      d  == __handle_delims(m, L1.src, p, f) # 0
      c  == [b |-> p, st |-> L0.src.state, n |-> L1.tk.idx, delim |-> d]
  IN IF d
       THEN IF L1.tk.idx > 1
              THEN \* normal token
                   LET A == ST_STATE(L1, "SYN_DUMMY")
                       B == Store([A EXCEPT !.tk.type = "TK_KEYWORD"],
                                  A.tk.idx - 1, 0)
                       C == __handle_token_id([B EXCEPT !.tk.idx = 0], m)
                   IN ReturnB(Note(C, c, "delim"),
                              IF p = 0 THEN "NEXT_ZTERM" ELSE "NEXT_MATCH")
              ELSE \* ignore empty stuff
                   AfterDelims([L1 EXCEPT !.tk.idx = 0], m, f, c)
       ELSE AfterDelims(L1, m, f, c)

RECURSIVE Loop(_, _, _)
Loop(L, m, f) ==
  IF L.ret # "NONE" THEN L
  ELSE IF L.src.idx < L.src.cap THEN Loop(LoopBody(L, m, f), m, f)
  ELSE L

\* mutant: the re-injected punctuation keeps the id of the keyword before it
Recover_NoId(L, m, f) ==
  CASE L.src.state = "SYN_NO_DUMMY__" ->
         LET A == IF ~HasFlag(f, PFLAG_INEXP) /\ L.src.last_exp_idx # -1
                    THEN LET le == __get_last_exp(m, L.src).begin
                             B  == mempcpy([L EXCEPT !.tk.type = "TK_EXPRESSION"],
                                           le, 1)
                         IN [B EXCEPT !.tk.idx = @ + Len(le)]
                    ELSE L
         IN [A EXCEPT !.src.state = "SYN_NO_DUMMY"]
    [] L.src.state = "SYN_PUNC__" ->
         LET lp == __get_last_punc(m, L.src)
             A  == Store(mempcpy(L, lp, 1), Len(lp), 0)
             B  == LD_STATE(A)
         IN Return([B EXCEPT !.tk.type = "TK_PUNCS"], "NEXT_MATCH")
    [] OTHER -> L

\* the two recover states, handled before any input is read
\* mutant: the remembered punctuation is returned and stays remembered
Recover_Stay(L, m, f) ==
  CASE L.src.state = "SYN_NO_DUMMY__" ->
         LET A == IF ~HasFlag(f, PFLAG_INEXP) /\ L.src.last_exp_idx # -1
                    THEN LET le == __get_last_exp(m, L.src).begin
                             B  == mempcpy([L EXCEPT !.tk.type = "TK_EXPRESSION"],
                                           le, 1)
                         IN [B EXCEPT !.tk.idx = @ + Len(le)]
                    ELSE L
         IN [A EXCEPT !.src.state = "SYN_NO_DUMMY"]
    [] L.src.state = "SYN_PUNC__" ->
         LET lp == __get_last_punc(m, L.src)
             A  == Store(mempcpy(L, lp, 1), Len(lp), 0)
         IN Return([A EXCEPT !.tk.type = "TK_PUNCS",
                             !.tk.id = A.src.last_punc_idx], "NEXT_MATCH")
    [] OTHER -> L

Recover(L, m, f) ==
  CASE L.src.state = "SYN_NO_DUMMY__" ->
         LET A == IF ~HasFlag(f, PFLAG_INEXP) /\ L.src.last_exp_idx # -1
                    THEN LET le == __get_last_exp(m, L.src).begin
                             B  == mempcpy([L EXCEPT !.tk.type = "TK_EXPRESSION"],
                                           le, 1)
                         IN [B EXCEPT !.tk.idx = @ + Len(le)]
                    ELSE L
         IN [A EXCEPT !.src.state = "SYN_NO_DUMMY"]
    [] L.src.state = "SYN_PUNC__" ->
         LET lp == __get_last_punc(m, L.src)
             A  == Store(mempcpy(L, lp, 1), Len(lp), 0)
             B  == LD_STATE(A)
         IN Return([B EXCEPT !.tk.type = "TK_PUNCS",
                             !.tk.id = B.src.last_punc_idx], "NEXT_MATCH")
    [] OTHER -> L

\* mutant: at the end of the input the bytes left in the token are dropped
EndOfChunk_NoFlush(L, m) ==
  IF L.src.eof_lazy
    THEN Return([L EXCEPT !.tk.type = "TK_NOT_SET"], "NEXT_END")
    ELSE Return([L EXCEPT !.src.idx = 0], "NEXT_NEED_LOAD")

\* after the loop: the chunk is used up
EndOfChunk(L, m) ==
  IF L.src.eof_lazy
    THEN IF L.tk.idx > 1
           THEN Return(IF L.tk.type = "TK_NOT_SET"
                         THEN __handle_token_id([L EXCEPT !.tk.type = "TK_KEYWORD"], m)
                         ELSE L, "NEXT_END")
         ELSE IF L.tk.idx = 1 /\ SignedChar(L.mem[L.tk.cstr]) > SPACE
           THEN Return([L EXCEPT !.tk.type = "TK_KEYWORD"], "NEXT_END")
           ELSE Return([L EXCEPT !.tk.type = "TK_NOT_SET"], "NEXT_END")
    ELSE Return([L EXCEPT !.src.idx = 0], "NEXT_NEED_LOAD")

\* mutant: the comparison of the two buffer pointers is missing
BadBuffers_NoAlias(s, t) == t.cstr = NULL \/ t.len <= 0

\* the precondition check on the two buffers
BadBuffers(s, t) == t.cstr = NULL \/ t.len <= 0 \/ t.cstr = s.buffer

\* L0 carries the C objects of the call and the observations made so far
__next_token_lazy(L0, m, f) ==
  IF BadBuffers(L0.src, L0.tk)
    THEN Return(L0, "NEXT_ERR")
    ELSE LET R == Recover(L0, m, f)
         IN IF R.ret # "NONE" THEN R
            ELSE IF R.src.idx > R.src.cap
              THEN IF R.src.eof_lazy THEN Return(R, "NEXT_END")
                   ELSE Return([R EXCEPT !.src.idx = 0], "NEXT_NEED_LOAD")
              ELSE LET A == Loop([R EXCEPT !.tk.type = "TK_NOT_SET"], m, f)
                   IN IF A.ret # "NONE" THEN A ELSE EndOfChunk(A, m)

\* the arguments of a call as the record the model threads through it
Args(s, t, mm, e, o) ==
  [src |-> s, tk |-> t, mem |-> mm, ret |-> "NONE", ev |-> e, oob |-> o]

NEXT_SHOULD_END(r) == r = "NEXT_END" \/ r = "NEXT_ERR"

(***************************************************************************)
(* Configurations.  Strings are written as byte sequences:                 *)
(*   32 ' '  33 '!'  34 '"'  43 '+'  61 '='  91 '['  92 '\'  93 ']'        *)
(*   97 'a'  98 'b'  99 'c'  101 'e'  102 'f'  105 'i'  108 'l'  115 's'   *)
(*   120 'x'                                                               *)
(***************************************************************************)
Milexer(p, k, e, d) ==
  [puncs |-> p, keywords |-> k, expression |-> e, delim_ranges |-> d]

_exp_t(b, e) == [begin |-> b, end |-> e]

\* all byte strings over alphabet A of length at most n
Strs(A, n) == UNION {[1..k -> A] : k \in 0..n}

\* puncs "=" and "!=", keyword "a"
ML_Punc == Milexer(<< <<61>>, <<33, 61>> >>, << <<97>> >>, <<>>, <<>>)
\* expression [ ], punctuation "]", no keyword table
ML_Exp == Milexer(<< <<93>> >>, <<>>, << _exp_t(<<91>>, <<93>>) >>, <<>>)
\* keywords "a" and "ab", nothing else
ML_Key == Milexer(<<>>, << <<97>>, <<97, 98>> >>, <<>>, <<>>)
\* the language of the specification's concrete scenario
ML_Lang == Milexer(<< <<43>>, <<61, 61>>, <<61>> >>,
                   << <<105, 102>>, <<101, 108, 115, 101>> >>,
                   << _exp_t(<<34>>, <<34>>) >>, <<>>)

(***************************************************************************)
(* The caller: the read loop of the example driver.  One run is fixed by   *)
(* a configuration, the flags, the token buffer (address and length) and   *)
(* the input; the caller chooses how the input is cut into chunks.         *)
(***************************************************************************)
LineAddr == 1

\* token buffers the caller may pass: a separate allocation after the line
\* buffer, no buffer, the line buffer itself, or one byte into the line buffer
TokenAddr(layout, n) ==
  CASE layout = "distinct" -> LineAddr + n + 1
    [] layout = "null"     -> NULL
    [] layout = "same"     -> LineAddr
    [] layout = "overlap"  -> LineAddr + 1

Run(m, f, len, layout, in) ==
  [ml |-> m, flags |-> f, len |-> len, layout |-> layout, input |-> in]

InitRun(r) ==
  /\ ml = r.ml
  /\ flags = r.flags
  /\ input = r.input
  /\ src = [eof_lazy |-> FALSE, state |-> "SYN_DUMMY", prev_state |-> "SYN_DUMMY",
            buffer |-> NULL, cap |-> 0, idx |-> 0,
            last_exp_idx |-> 0, last_punc_idx |-> 0]
  /\ tk = [type |-> "TK_NOT_SET", id |-> 0, idx |-> 0, len |-> r.len,
           cstr |-> TokenAddr(r.layout, Len(r.input))]
  /\ mem = [a \in 1..(LineAddr + 2 * Len(r.input) + r.len + 4) |-> Uninit]
  /\ pos = 0
  /\ ret = "NONE"
  /\ out = <<>>
  /\ ev = <<>>
  /\ oob = FALSE
  /\ OthersIdle

\* what the caller reads from the token after a call
Token(L) ==
  [ret |-> L.ret, type |-> L.tk.type, id |-> L.tk.id,
   cstr |-> CStr(L.mem, L.tk.cstr)]

\* the statuses with which a token or a fragment is handed to the caller
Emits(L) ==
  \/ L.ret \in {"NEXT_MATCH", "NEXT_CHUNK", "NEXT_ZTERM"}
  \/ L.ret = "NEXT_END" /\ L.tk.type # "TK_NOT_SET"

\* ret = ml.next (&ml, &src, &tk, flg)
Call ==
  /\ ret \notin {"NEXT_NEED_LOAD", "NEXT_END", "NEXT_ERR"}
  /\ LET L == __next_token_lazy(Args(src, tk, mem, ev, oob), ml, flags)
     IN /\ src' = L.src
        /\ tk' = L.tk
        /\ mem' = L.mem
        /\ ret' = L.ret
        /\ out' = IF Emits(L) THEN Append(out, Token(L)) ELSE out
        /\ ev' = L.ev
        /\ oob' = L.oob
  /\ UNCHANGED <<ml, flags, input, pos, other_vars>>

\* case NEXT_NEED_LOAD, a line was read: SET_SLICE (&src, line, n)
Load ==
  /\ ret = "NEXT_NEED_LOAD"
  /\ pos < Len(input)
  /\ \E n \in 1..(Len(input) - pos) :
       /\ mem' = [a \in DOMAIN mem |->
                    IF a >= LineAddr /\ a < LineAddr + n
                      THEN input[pos + 1 + a - LineAddr] ELSE mem[a]]
       /\ src' = [src EXCEPT !.buffer = LineAddr, !.cap = n]
       /\ pos' = pos + n
  /\ ret' = "NONE"
  /\ UNCHANGED <<ml, flags, tk, input, out, ev, oob, other_vars>>

\* case NEXT_NEED_LOAD, nothing left to read: END_SLICE (&src)
EndSlice ==
  /\ ret = "NEXT_NEED_LOAD"
  /\ pos = Len(input)
  /\ src' = [src EXCEPT !.cap = 0, !.eof_lazy = TRUE]
  /\ ret' = "NONE"
  /\ UNCHANGED <<ml, flags, tk, mem, input, pos, out, ev, oob, other_vars>>

Next == Call \/ Load \/ EndSlice

(***************************************************************************)
(* Specifications.  They share Next and differ in the runs they start.     *)
(***************************************************************************)
\* puncs "!=" and "=", the table order of ML_Punc swapped
ML_PuncRev == Milexer(<< <<33, 61>>, <<61>> >>, << <<97>> >>, <<>>, <<>>)
\* puncs "=" and ">>="
ML_Shift == Milexer(<< <<61>>, <<62, 62, 61>> >>, <<>>, <<>>, <<>>)
\* keywords "ab" and "abc"
ML_Word == Milexer(<<>>, << <<97, 98>>, <<97, 98, 99>> >>, <<>>, <<>>)

\* Spec: every input up to MaxInLen bytes, buffers that overflow (2) or not (8)
Runs ==
  {Run(ML_Punc, f, len, "distinct", in) :
     f \in {PFLAG_DEFAULT}, len \in {2, 8}, in \in Strs({97, 61, 33, 32}, MaxInLen)}
  \cup
  {Run(ML_Exp, f, len, "distinct", in) :
     f \in {PFLAG_DEFAULT, PFLAG_INEXP}, len \in {2, 8},
     in \in Strs({97, 91, 93, 92, 32}, MaxInLen)}
  \cup
  {Run(ML_Key, f, len, "distinct", in) :
     f \in {PFLAG_DEFAULT}, len \in {8}, in \in Strs({97, 98, 0, 32}, MaxInLen)}

Init == \E r \in Runs : InitRun(r)

Spec == Init /\ [][Next]_vars

\* SpecScenario: the concrete inputs the specification names, in every chunking
IfInput == <<105, 102, 32, 97, 61, 61, 34, 120, 34, 32>>   \* if a=="x"_
AbcInput == <<97, 98, 99>>

ScenarioRuns ==
  {Run(ML_Lang, PFLAG_INEXP, 32, "distinct", IfInput)}
  \cup
  {Run(m, f, len, "distinct", AbcInput) :
     m \in {ML_Lang, ML_Word}, f \in 0..3, len \in {4, 32}}
  \cup
  {Run(r[1], PFLAG_DEFAULT, len, "distinct", r[2]) :
     r \in {<<ML_Punc, <<33, 61>> >>, <<ML_PuncRev, <<33, 61>> >>,
            <<ML_Shift, <<62, 62, 61>> >>, <<ML_Lang, <<61, 61>> >>},
     len \in {4, 32}}
  \cup
  \* token buffers exactly as long as the longest punctuation
  {Run(ML_Punc, PFLAG_DEFAULT, 2, "distinct", in) :
     in \in {<<33, 61>>, <<32, 33, 61>>, <<97, 32, 33, 61>>,
             <<97, 97, 33, 61>>, <<33, 61, 33, 61>>}}
  \cup
  {Run(ML_PuncRev, PFLAG_DEFAULT, 2, "distinct", <<33, 61>>),
   Run(ML_Shift, PFLAG_DEFAULT, 3, "distinct", <<62, 62, 61>>),
   Run(ML_Shift, PFLAG_DEFAULT, 3, "distinct", <<32, 62, 62, 61>>),
   Run(ML_Lang, PFLAG_DEFAULT, 2, "distinct", <<61, 61>>),
   Run(ML_Lang, PFLAG_DEFAULT, 2, "distinct", <<105, 102, 32, 61, 61>>)}

InitScenario == \E r \in ScenarioRuns : InitRun(r)

SpecScenario == InitScenario /\ [][Next]_vars

\* SpecMisuse: token buffers that are missing, empty, or inside the line buffer
MisuseRuns ==
  {Run(ML_Punc, PFLAG_DEFAULT, len, layout, in) :
     len \in {0, 2, 8}, layout \in {"distinct", "null", "same", "overlap"},
     in \in Strs({97, 61, 32}, MaxMisuseLen)}

InitMisuse == \E r \in MisuseRuns : InitRun(r)

SpecMisuse == InitMisuse /\ [][Next]_vars

\* SpecDelim: the delimiter rules, with and without a table of delimiter
\* ranges, under every value the two delimiter flags can be or-ed to
MaxDelimLen == 3   \* longest input of the runs about delimiters

\* keyword "a"; delimiter ranges "," and "0".."9"
ML_Delim == Milexer(<<>>, << <<97>> >>, <<>>, << <<44>>, <<48, 57>> >>)

\* a | b for two flag words
FlagOr(a, b) ==
  LET Bit(k) == IF HasFlag(a, k) \/ HasFlag(b, k) THEN k ELSE 0
  IN Bit(1) + Bit(2)

DelimFlags ==
  {FlagOr(a, b) : a \in {PFLAG_DEFAULT, PFLAG_IGSPACE},
                  b \in {PFLAG_DEFAULT, PFLAG_ALLDELIMS}}

DelimRuns ==
  {Run(m, f, 8, "distinct", in) :
     m \in {ML_Key, ML_Delim}, f \in DelimFlags,
     in \in Strs({97, 44, 53, 32, 9, 0}, MaxDelimLen)}

InitDelim == \E r \in DelimRuns : InitRun(r)

SpecDelim == InitDelim /\ [][Next]_vars

\* SpecExp: two expression pairs and a punctuation, in a token buffer that
\* never fills
MaxExpLen == 3     \* longest input of the runs about open expressions

\* punctuation "="; expressions [ ] and ( )
ML_Nest == Milexer(<< <<61>> >>, <<>>,
                   << _exp_t(<<91>>, <<93>>), _exp_t(<<40>>, <<41>>) >>, <<>>)

ExpRuns ==
  {Run(ML_Nest, f, 8, "distinct", in) :
     f \in {PFLAG_DEFAULT, PFLAG_INEXP},
     in \in Strs({97, 91, 93, 40, 92, 32, 61}, MaxExpLen)}

InitExp == \E r \in ExpRuns : InitRun(r)

SpecExp == InitExp /\ [][Next]_vars

\* SpecRecover: punctuations next to other bytes, in buffers that fill (2)
\* or not (8), and after a finished expression
MaxRecLen == 4     \* longest input of the runs about punctuation recovery

RecoverRuns ==
  {Run(ML_Punc, PFLAG_DEFAULT, len, "distinct", in) :
     len \in {2, 8}, in \in Strs({97, 61, 33, 32}, MaxRecLen)}
  \cup
  {Run(ML_Nest, PFLAG_DEFAULT, 8, "distinct", in) :
     in \in {<<91, 93, 97, 61>>, <<91, 93, 97, 61, 97>>}}     \* []a=  []a=a

InitRecover == \E r \in RecoverRuns : InitRun(r)

SpecRecover == InitRecover /\ [][Next]_vars

\* the call the caller's loop makes next changes the state
CallChanges ==
  LET L == __next_token_lazy(Args(src, tk, mem, ev, oob), ml, flags)
  IN \/ <<L.src, L.tk, L.mem, L.ret, L.ev, L.oob>> # <<src, tk, mem, ret, ev, oob>>
     \/ Emits(L)

\* ENABLED <<Call>>_vars, computed from the state
CallEnabled ==
  ret \notin {"NEXT_NEED_LOAD", "NEXT_END", "NEXT_ERR"} /\ CallChanges

\* the caller's loop does not stop before the end status: it calls again
\* after a token, and reads the next line or ends the slice when asked to.
\* The last conjunct is WF_vars(Call) with its ENABLED written as CallEnabled.
SpecLive ==
  Init /\ [][Next]_vars
    /\ WF_vars(Load) /\ WF_vars(EndSlice)
    /\ ([]<>(~CallEnabled) \/ []<><<Call>>_vars)

(***************************************************************************)
(* DS/tape_mem.c: the tape allocator.  A record on the tape is the length  *)
(* word of the DBuffer (8 bytes), the data bytes, and 8 bytes that are     *)
(* never written: sizeof (DBuffer) + len bytes in all.  The memory behind  *)
(* tape.data is kept as the set of cells written so far, addressed by      *)
(* their offset from tape.data; the data bytes of one buffer are one cell.  *)
(***************************************************************************)
MaxAppends == 3        \* most buffers appended to one tape

BUF_MAX_LEN == 256 * 1024
SizeofDBuffer == 16    \* sizeof (DBuffer): size_t len; char *data
OffsetofData == 8      \* offsetof (DBuffer, data)
TapeBase == 1          \* the address malloc returned for tape.data

DBuffer(len, data) == [len |-> len, data |-> data]

new_tape(capacity) == [len |-> 0, cap |-> capacity, data |-> NULL]

\* buf->len read at offset p of the tape memory; memory nobody wrote reads
\* as some value, 0 here (every read of a run is of a written length word)
TapeLenAt(td, p) ==
  IF \E c \in td : c.at = p /\ c.what = "len"
    THEN (CHOOSE c \in td : c.at = p /\ c.what = "len").len
    ELSE 0

\* the outcome of tape_append: the tape, its memory, and the returned pointer
\* (ret "NULL", or "PTR" with its offset)
tape_append(t, td, buf) ==
  LET refused == [tape |-> t, tape_data |-> td, ret |-> "NULL", off |-> 0]
      __buf_size == buf.len + SizeofDBuffer
  IN IF t.data = NULL \/ t.cap = 0 \/ buf.len = 0 THEN refused
     ELSE IF __buf_size > BUF_MAX_LEN THEN refused
     ELSE IF t.len + __buf_size >= t.cap THEN refused
     ELSE [tape |-> [t EXCEPT !.len = t.len + __buf_size],
           tape_data |-> td \cup
             {[at |-> t.len, what |-> "len", len |-> buf.len, data |-> ""],
              [at |-> t.len + OffsetofData, what |-> "data",
               len |-> buf.len, data |-> buf.data]},
           ret |-> "PTR", off |-> t.len + OffsetofData]

\* the while loop of tape_get; buf, p are offsets from tape.data
RECURSIVE TapeGetLoop(_, _, _, _, _)
TapeGetLoop(td, p, p_len, index, buf) ==
  IF index # 0 /\ p_len # 0
    THEN LET len == TapeLenAt(td, p)
             __buf_size == len + SizeofDBuffer
         IN IF ~(__buf_size < BUF_MAX_LEN /\ len # 0)
              THEN [ret |-> "ABORT", off |-> 0]      \* the assertion fails
              ELSE TapeGetLoop(td, p + __buf_size, p_len - __buf_size,
                               index - 1, p)
    ELSE IF index = 0
      THEN [ret |-> "PTR", off |-> buf + OffsetofData]
      ELSE [ret |-> "NULL", off |-> 0]

tape_get(t, td, index) ==
  IF t.data = NULL THEN [ret |-> "NULL", off |-> 0]
  ELSE TapeGetLoop(td, 0, t.len, index, 0)

\* the buffers the caller appends: the two lengths of the test program, an
\* empty one, and the two lengths around BUF_MAX_LEN - sizeof (DBuffer)
TapeBuffers ==
  {DBuffer(len, d) :
     len \in {0, 4, 32, BUF_MAX_LEN - SizeofDBuffer,
              BUF_MAX_LEN - SizeofDBuffer + 1},
     d \in {"One", "XXX"}}

InitTape ==
  /\ \E capacity \in {0, 64, 1024 * 1024} : tape = new_tape(capacity)
  /\ tape_data = {}
  /\ appended = <<>>
  /\ data_at = [index |-> 0, n |-> 0, ret |-> "NONE", off |-> 0]
  /\ LexerIdle /\ CodemIdle /\ ArenaIdle /\ PermIdle

Running == data_at.ret # "ABORT"

\* mem.data = malloc (mem.cap)
TapeAlloc ==
  /\ Running /\ tape.data = NULL
  /\ tape' = [tape EXCEPT !.data = TapeBase]
  /\ UNCHANGED <<tape_data, appended, data_at, lexer_vars, codem_vars, arena_vars, perm_vars>>

\* tape_append (&mem, &tmp)
TapeAppend ==
  /\ Running /\ Len(appended) < MaxAppends
  /\ \E buf \in TapeBuffers :
       LET r == tape_append(tape, tape_data, buf)
       IN /\ tape' = r.tape
          /\ tape_data' = r.tape_data
          /\ appended' = IF r.ret = "PTR" THEN Append(appended, buf) ELSE appended
  /\ UNCHANGED <<data_at, lexer_vars, codem_vars, arena_vars, perm_vars>>

\* data_at = tape_get (&mem, index)
TapeGet ==
  /\ Running
  /\ \E index \in 0..(MaxAppends + 1) :
       LET r == tape_get(tape, tape_data, index)
       IN data_at' = [index |-> index, n |-> Len(appended),
                      ret |-> r.ret, off |-> r.off]
  /\ UNCHANGED <<tape, tape_data, appended, lexer_vars, codem_vars, arena_vars, perm_vars>>

NextTape == TapeAlloc \/ TapeAppend \/ TapeGet

SpecTape == InitTape /\ [][NextTape]_vars

(***************************************************************************)
(* codeM/codeM.c: the control digit of a codem, a numeric string of        *)
(* CODEM_LEN characters.  A buffer is the sequence of its characters       *)
(* (bytes), code[i + 1] being the C code[i].                               *)
(***************************************************************************)
CodemFree == 3       \* trailing characters of the buffer that take every digit

CODEM_LEN == 10
CTRL_DIGIT_IDX == 9
CHAR_0 == 48         \* '0'
CHAR_9 == 57         \* '9'

char2num(c) == c - CHAR_0
num2char(x) == x + CHAR_0
isanumber(c) == CHAR_0 <= c /\ CHAR_9 >= c

\* mutant: the remainder is used as it is, also when it is 2 or more
ctrl_digit__H_NoFold(codem) ==
  LET Sum[i \in 0..(CODEM_LEN - 1)] ==
        IF i = 0 THEN 0
        ELSE Sum[i - 1] + (10 - (i - 1)) * char2num(codem[i])
  IN Sum[CODEM_LEN - 1] % 11

\* res of ctrl_digit__H: the weighted sum of the characters 0..8
ctrl_digit__H(codem) ==
  LET Sum[i \in 0..(CODEM_LEN - 1)] ==
        IF i = 0 THEN 0
        ELSE Sum[i - 1] + (10 - (i - 1)) * char2num(codem[i])
      res == Sum[CODEM_LEN - 1] % 11
  IN IF res >= 2 THEN 11 - res ELSE res

is_numeric(codem) ==
  IF \A idx \in 0..(CODEM_LEN - 1) : isanumber(codem[idx + 1]) THEN 1 ELSE 0

codem_find_ctrl_digit(codem) == ctrl_digit__H(codem)

codem_set_ctrl_digit(codem) ==
  [codem EXCEPT ![CTRL_DIGIT_IDX + 1] = num2char(ctrl_digit__H(codem))]

codem_isvalidn(codem) ==
  IF is_numeric(codem) = 0 THEN 0
  ELSE IF codem[CTRL_DIGIT_IDX + 1] = num2char(codem_find_ctrl_digit(codem))
    THEN 1 ELSE 0

\* the first characters of the buffers of the test functions
CodemPrefixes ==
  {<<49, 50, 51, 52, 53, 54, 55, 56, 57>>,      \* 123456789
   <<48, 48, 48, 48, 53, 54, 55, 56, 57>>,      \* 000056789
   <<54, 54, 54, 48, 48, 48, 48, 48, 48>>}      \* 666000000

\* the numeric strings of CODEM_LEN characters the runs start from
Codems ==
  {SubSeq(pre, 1, CODEM_LEN - CodemFree) \o t :
     pre \in CodemPrefixes, t \in [1..CodemFree -> CHAR_0..CHAR_9]}

InitCodem ==
  /\ \E c \in Codems : code = c /\ code_hist = <<c>>
  /\ valid = [called |-> FALSE, ret |-> 0]
  /\ LexerIdle /\ TapeIdle /\ ArenaIdle /\ PermIdle

\* codem_set_ctrl_digit (code), at most twice in a run
SetCtrlDigit ==
  /\ Len(code_hist) < 3
  /\ code' = codem_set_ctrl_digit(code)
  /\ code_hist' = Append(code_hist, code')
  /\ valid' = [called |-> FALSE, ret |-> 0]
  /\ UNCHANGED <<lexer_vars, tape_vars, arena_vars, perm_vars>>

\* validate (code), which is codem_isvalidn (code)
Validate ==
  /\ ~valid.called
  /\ valid' = [called |-> TRUE, ret |-> codem_isvalidn(code)]
  /\ UNCHANGED <<code, code_hist, lexer_vars, tape_vars, arena_vars, perm_vars>>

NextCodem == SetCtrlDigit \/ Validate

SpecCodem == InitCodem /\ [][NextCodem]_vars

(***************************************************************************)
(* Reference run: the same caller loop with the whole input handed over    *)
(* as a single chunk (one SET_SLICE, then END_SLICE).                      *)
(***************************************************************************)
RECURSIVE WholeLoop(_, _, _, _, _, _, _, _)
WholeLoop(m, f, in, s, t, mm, loaded, o) ==
  LET L  == __next_token_lazy(Args(s, t, mm, <<>>, FALSE), m, f)
      o2 == IF Emits(L) THEN Append(o, Token(L)) ELSE o
  IN IF NEXT_SHOULD_END(L.ret) THEN o2
     ELSE IF L.ret = "NEXT_NEED_LOAD"
       THEN IF ~loaded /\ Len(in) > 0
              THEN WholeLoop(m, f, in,
                     [L.src EXCEPT !.buffer = LineAddr, !.cap = Len(in)], L.tk,
                     [a \in DOMAIN L.mem |->
                        IF a >= LineAddr /\ a < LineAddr + Len(in)
                          THEN in[1 + a - LineAddr] ELSE L.mem[a]],
                     TRUE, o2)
              ELSE WholeLoop(m, f, in,
                     [L.src EXCEPT !.cap = 0, !.eof_lazy = TRUE], L.tk, L.mem,
                     TRUE, o2)
       ELSE WholeLoop(m, f, in, L.src, L.tk, L.mem, loaded, o2)

OneChunk ==
  WholeLoop(ml, flags, input,
            [eof_lazy |-> FALSE, state |-> "SYN_DUMMY", prev_state |-> "SYN_DUMMY",
             buffer |-> NULL, cap |-> 0, idx |-> 0,
             last_exp_idx |-> 0, last_punc_idx |-> 0],
            [tk EXCEPT !.type = "TK_NOT_SET", !.id = 0, !.idx = 0],
            [a \in DOMAIN mem |-> Uninit], FALSE, <<>>)

\* the reference run of this lexer and token buffer on the input in
OneChunkOf(in) ==
  WholeLoop(ml, flags, in,
            [eof_lazy |-> FALSE, state |-> "SYN_DUMMY", prev_state |-> "SYN_DUMMY",
             buffer |-> NULL, cap |-> 0, idx |-> 0,
             last_exp_idx |-> 0, last_punc_idx |-> 0],
            [tk EXCEPT !.type = "TK_NOT_SET", !.id = 0, !.idx = 0],
            [a \in DOMAIN mem |-> Uninit], FALSE, <<>>)

\* the reference run of this lexer on the input with a token buffer that the
\* input cannot fill
LargeBuffer ==
  WholeLoop(ml, flags, input,
            [eof_lazy |-> FALSE, state |-> "SYN_DUMMY", prev_state |-> "SYN_DUMMY",
             buffer |-> NULL, cap |-> 0, idx |-> 0,
             last_exp_idx |-> 0, last_punc_idx |-> 0],
            [tk EXCEPT !.type = "TK_NOT_SET", !.id = 0, !.idx = 0,
                       !.len = Len(input) + 1],
            [a \in 1..(LineAddr + 3 * Len(input) + 5) |-> Uninit], FALSE, <<>>)

MaxDupLen == 3     \* longest input of the runs with a repeated punctuation

\* "=" and "!=" both twice in the punctuation table, keyword "a"
ML_Dup == Milexer(<< <<61>>, <<33, 61>>, <<61>>, <<33, 61>> >>, << <<97>> >>,
                  <<>>, <<>>)

DupRuns ==
  {Run(ML_Dup, PFLAG_DEFAULT, 8, "distinct", in) :
     in \in Strs({97, 61, 33}, MaxDupLen)}

InitDup == \E r \in DupRuns : InitRun(r)

SpecDup == InitDup /\ [][Next]_vars

(***************************************************************************)
(* arena.c: region based allocator.  A region is one allocation of         *)
(* sizeof (struct region_t) + cap bytes at address `at`; the regions of    *)
(* the arena are a sequence in list order (next is the following entry).   *)
(* The member `buffer` of a new region is a pointer that is never          *)
(* assigned: the store `r->buffer->flag = ...` and the later reads of      *)
(* `r->buffer->mem` go through it.  What that does is not defined; the     *)
(* outcomes kept are a fault, and a program that goes on with buffer->mem  *)
(* either at the bytes behind the region header or at some other address.  *)
(***************************************************************************)
MaxArenaCalls == 3    \* calls of arena_alloc / arena_alloc2 in a run

SizeofRegion == 24         \* sizeof (struct region_t)
ARENA_MIN_CAP == 1024
HUGE_MEM == 2097152
AFLAG_MALLOCED == 2
AFLAG_MAPPED == 4
AUSE_MALLOC == 1024
AUSE_MMAP == 4096
RegionStride == 4194304    \* the allocations of the regions are this far apart
StrayAddr == 8             \* an address that lies in no region

FL2(val, flag) == HasFlag(val, flag)

UBOutcomes == {"fault", "data", "stray"}

NoRegion == [at |-> NULL, len |-> 0, cap |-> 0, flag |-> 0, mem |-> NULL]

\* [r, fault]: the new region, or the fault of the store through r->buffer
NewRegion(cap, flag, at, ub) ==
  IF ub = "fault" THEN [r |-> NoRegion, fault |-> TRUE]
  ELSE [r |-> [at |-> at, len |-> 0, cap |-> cap, flag |-> flag,
               mem |-> IF ub = "data" THEN at + SizeofRegion ELSE StrayAddr],
        fault |-> FALSE]

__new_region_malloc(cap, at, ub) == NewRegion(cap, AFLAG_MALLOCED, at, ub)

__new_region_mmap(cap, at, ub) == NewRegion(cap, AFLAG_MAPPED, at, ub)

__new_huge_region(cap, at, ub) == __new_region_mmap(cap, at, ub)

__new_region_H(cap, fl, at, ub) ==
  IF cap > HUGE_MEM THEN __new_huge_region(cap, at, ub)
  ELSE LET c == IF cap < ARENA_MIN_CAP THEN ARENA_MIN_CAP ELSE cap
       IN IF FL2(fl, AUSE_MALLOC) THEN __new_region_malloc(c, at, ub)
          ELSE IF FL2(fl, AUSE_MMAP) THEN __new_region_mmap(c, at, ub)
          ELSE [r |-> NoRegion, fault |-> FALSE]

\* where the next region is allocated
NextAt(A) == (Len(A.regions) + 1) * RegionStride

\* the result of a call: the arena, the pointer returned, the fault
AResult(A, p, f) == [A |-> A, p |-> p, fault |-> f]

\* "initialize the linked list"
ArenaFirst(A, size, fl, ub) ==
  LET N == __new_region_H(size, fl, NextAt(A), ub)
  IN IF N.fault THEN AResult(A, NULL, TRUE)
     ELSE IF N.r.at = NULL THEN AResult(A, NULL, FALSE)
     ELSE AResult([regions |-> <<N.r>>, head |-> 1, cursor |-> 1], N.r.mem, FALSE)

\* the while loop over the regions that have a successor, from region i on,
\* and the new region at the end of the list; same_flags is the condition
\* `A->cursor->buffer->flag == flags` that only arena_alloc has.  The sums
\* of the sizes of a run stay far below 2^32, where uint would wrap.
RECURSIVE ArenaWalk(_, _, _, _, _, _)
ArenaWalk(A, i, size, fl, ub, same_flags) ==
  LET r == A.regions[i]
  IN IF i < Len(A.regions)
       THEN IF r.len + size <= r.cap /\ (same_flags => r.flag = fl)
              THEN LET len == r.len + size
                   IN AResult([A EXCEPT !.regions[i].len = len, !.cursor = i],
                              r.mem + len, FALSE)
              ELSE ArenaWalk(A, i + 1, size, fl, ub, same_flags)
       ELSE LET N == __new_region_H(size, fl, NextAt(A), ub)
            IN IF N.fault THEN AResult([A EXCEPT !.cursor = i], NULL, TRUE)
               ELSE IF N.r.at = NULL THEN AResult([A EXCEPT !.cursor = i], NULL, FALSE)
               ELSE AResult([A EXCEPT !.regions = Append(@, N.r), !.cursor = i + 1],
                            N.r.mem, FALSE)

arena_alloc2(A, size, fl, ub) ==
  IF A.head = NULL THEN ArenaFirst(A, size, fl, ub)
  ELSE ArenaWalk(A, 1, size, fl, ub, FALSE)

arena_alloc(A, size, fl, ub) ==
  IF size = 0 THEN AResult(A, NULL, FALSE)
  ELSE IF A.head = NULL THEN ArenaFirst(A, size, fl, ub)
  ELSE ArenaWalk(A, 1, size, fl, ub, TRUE)

ArenaSizes == {0, 100, 400, 700}
ArenaFlags == {0, AUSE_MALLOC, AUSE_MMAP}

InitArena ==
  /\ arena = [regions |-> <<>>, head |-> NULL, cursor |-> NULL]   \* new_arena ()
  /\ returned = <<>>
  /\ afault = FALSE
  /\ LexerIdle /\ TapeIdle /\ CodemIdle /\ PermIdle

ArenaCall(R, size) ==
  /\ arena' = R.A
  /\ afault' = R.fault
  /\ returned' = IF R.fault THEN returned
                 ELSE Append(returned, [p |-> R.p, size |-> size])
  /\ UNCHANGED <<lexer_vars, tape_vars, codem_vars, perm_vars>>

\* p = arena_alloc (&A, size, flags)
ArenaAlloc ==
  /\ ~afault /\ Len(returned) < MaxArenaCalls
  /\ \E size \in ArenaSizes, fl \in ArenaFlags, ub \in UBOutcomes :
       ArenaCall(arena_alloc(arena, size, fl, ub), size)

\* p = arena_alloc2 (&A, size, flags)
ArenaAlloc2 ==
  /\ ~afault /\ Len(returned) < MaxArenaCalls
  /\ \E size \in ArenaSizes, fl \in ArenaFlags, ub \in UBOutcomes :
       ArenaCall(arena_alloc2(arena, size, fl, ub), size)

NextArena == ArenaAlloc \/ ArenaAlloc2

SpecArena == InitArena /\ [][NextArena]_vars

(***************************************************************************)
(* utils/permugen.c: perm, the normal mode.  Strings are sequences of      *)
(* bytes; an option string that is NULL is the empty sequence (nothing is  *)
(* written for either).  The output file is the sequence of bytes written. *)
(***************************************************************************)
MaxCSeeds == 2     \* most character seeds of a run
MaxWSeeds == 2     \* most word seeds of a run
MaxDepth == 3      \* largest depth of a run

NEWLINE == 10

\* mutant: the components behind the one that advances are not set to 0
RECURSIVE PermCarry_Keep(_, _, _)
PermCarry_Keep(ix, k, max) ==
  IF k >= 1 /\ ix[k] = max
    THEN PermCarry_Keep(ix, k - 1, max)
    ELSE [idxs |-> ix, pos |-> k]

\* for (pos = depth - 1; pos >= 0 && idxs[pos] == _max_depth; pos--)
\*   idxs[pos] = 0;          (k is pos + 1: 0 is the C value -1)
RECURSIVE PermCarry(_, _, _)
PermCarry(ix, k, max) ==
  IF k >= 1 /\ ix[k] = max
    THEN PermCarry([ix EXCEPT ![k] = 0], k - 1, max)
    ELSE [idxs |-> ix, pos |-> k]

_max_depth(o) == Len(o.cseed) - 1 + Len(o.wseed)

\* what Print_Loop writes for component i and the ones behind it
RECURSIVE Print_Loop(_, _, _)
Print_Loop(o, ix, i) ==
  LET idx  == ix[i]
      seed == IF idx < Len(o.cseed)
                THEN <<o.cseed[idx + 1]>>
                ELSE o.wseed[idx - Len(o.cseed) + 1]
  IN IF i < Len(ix)
       THEN seed \o o.separator \o Print_Loop(o, ix, i + 1)
       ELSE seed

PermOpts ==
  {[cseed |-> SubSeq(<<97, 98>>, 1, c),
    wseed |-> SubSeq(<< <<120, 121>>, <<122>> >>, 1, w),
    prefix |-> p, separator |-> sp, suffix |-> sf] :
     c \in 0..MaxCSeeds, w \in 0..MaxWSeeds,
     p \in {<<>>, <<60>>}, sp \in {<<>>, <<44>>}, sf \in {<<>>, <<62>>}}

InitPerm ==
  /\ opt \in {o \in PermOpts : Len(o.cseed) + Len(o.wseed) >= 1}
  /\ depth \in 1..MaxDepth
  /\ idxs = [i \in 1..depth |-> 0]        \* memset (idxs, 0, ...)
  /\ perm_pc = "Perm_Loop"
  /\ outf = <<>>
  /\ tuples = <<>>
  /\ LexerIdle /\ TapeIdle /\ CodemIdle /\ ArenaIdle

\* Perm_Loop and Print_Loop: one permutation is written
PermPrint ==
  /\ perm_pc = "Perm_Loop"
  /\ outf' = outf \o opt.prefix \o Print_Loop(opt, idxs, 1) \o opt.suffix
                  \o <<NEWLINE>>
  /\ tuples' = Append(tuples, idxs)
  /\ perm_pc' = "carry"
  /\ UNCHANGED <<opt, depth, idxs, lexer_vars, tape_vars, codem_vars, arena_vars>>

\* the for loop behind the printing: return 0, or idxs[pos]++ and again
PermNext ==
  /\ perm_pc = "carry"
  /\ LET c == PermCarry(idxs, depth, _max_depth(opt))
     IN IF c.pos < 1
          THEN idxs' = c.idxs /\ perm_pc' = "return"
          ELSE idxs' = [c.idxs EXCEPT ![c.pos] = @ + 1] /\ perm_pc' = "Perm_Loop"
  /\ UNCHANGED <<opt, depth, outf, tuples, lexer_vars, tape_vars, codem_vars,
                 arena_vars>>

NextPerm == PermPrint \/ PermNext

\* perm is one function running to its end: no step of it waits for anything
SpecPerm == InitPerm /\ [][NextPerm]_vars /\ WF_vars(NextPerm)

(***************************************************************************)
(* Claims                                                                  *)
(***************************************************************************)
Finished == NEXT_SHOULD_END(ret)

\* type and content of every token the caller received
Stream == [i \in 1..Len(out) |-> <<out[i].type, out[i].cstr>>]

\* index of the first keyword-table entry equal to s, -1 when there is none
KwId(kws, s) ==
  IF \E i \in 1..Len(kws) : kws[i] = s
    THEN (CHOOSE i \in 1..Len(kws) :
            kws[i] = s /\ \A q \in 1..(i - 1) : kws[q] # s) - 1
    ELSE -1

IsPrefix(a, b) == Len(a) <= Len(b) /\ SubSeq(b, 1, Len(a)) = a
IsSuffix(a, b) == Len(a) <= Len(b) /\ SubSeq(b, Len(b) - Len(a) + 1, Len(b)) = a

\* C1: chunk invariance. When the run is over, the tokens and fragments the
\* caller received (status, type, id, content of each) are those of the run
\* that hands the same input over as a single chunk.
C1_ChunkInvariance == Finished => out = OneChunk

\* C2 as stated: the scenario if a=="x"_ yields keyword if, keyword a,
\* punctuation ==, expression x, then the end status.
C2_Run == ml = ML_Lang /\ flags = PFLAG_INEXP /\ input = IfInput

C2_StreamWithDoubleEqual ==
  C2_Run /\ Finished =>
    /\ ret = "NEXT_END" /\ tk.type = "TK_NOT_SET"
    /\ Stream = << <<"TK_KEYWORD", <<105, 102>> >>, <<"TK_KEYWORD", <<97>> >>,
                   <<"TK_PUNCS", <<61, 61>> >>, <<"TK_EXPRESSION", <<120>> >> >>

\* C2 amended: the scenario yields keyword if, keyword a, punctuation =,
\* punctuation =, expression x, then the end status, in every chunking.
C2_StreamWithTwoEquals ==
  C2_Run /\ Finished =>
    /\ ret = "NEXT_END" /\ tk.type = "TK_NOT_SET"
    /\ Stream = << <<"TK_KEYWORD", <<105, 102>> >>, <<"TK_KEYWORD", <<97>> >>,
                   <<"TK_PUNCS", <<61>> >>, <<"TK_PUNCS", <<61>> >>,
                   <<"TK_EXPRESSION", <<120>> >> >>

C2_Witness == C2_Run /\ Finished /\ Len(out) = 5

\* C3: end-of-input flush. For the input abc (token buffer longer than the
\* input) nothing is emitted before end-of-input is flagged; once it is
\* flagged the lexer never answers NEXT_NEED_LOAD, and the run ends with
\* exactly one token: NEXT_END, keyword, content abc, id looked up in the
\* keyword table.
C3_EndOfInputFlush ==
  input = AbcInput =>
    /\ src.eof_lazy => ret \in {"NONE", "NEXT_END"}
    /\ ~Finished => out = <<>>
    /\ Finished => out = << [ret |-> "NEXT_END", type |-> "TK_KEYWORD",
                             id |-> KwId(ml.keywords, AbcInput),
                             cstr |-> AbcInput] >>

C3_Witness ==
  input = AbcInput /\ ml = ML_Word /\ Finished /\ Len(out) = 1 /\ out[1].id = 1

\* the runs whose input is a configured punctuation that has a shorter
\* configured punctuation as a proper prefix or a proper suffix
C4_Longer(j) ==
  /\ j \in 1..Len(ml.puncs)
  /\ input = ml.puncs[j]
  /\ \E i \in 1..Len(ml.puncs) :
       /\ Len(ml.puncs[i]) < Len(input)
       /\ IsPrefix(ml.puncs[i], input) \/ IsSuffix(ml.puncs[i], input)

\* some proper prefix of the input ends with a configured punctuation
C4_PuncInside ==
  \E k \in 1..(Len(input) - 1) : \E i \in 1..Len(ml.puncs) :
    IsSuffix(ml.puncs[i], SubSeq(input, 1, k))

\* C4 as stated: an input equal to the longer of two overlapping punctuation
\* entries yields exactly one punctuation token, content and id of the
\* longer entry.
C4_LongestAlways ==
  \A j \in 1..Len(ml.puncs) :
    C4_Longer(j) /\ Finished =>
      out = << [ret |-> "NEXT_MATCH", type |-> "TK_PUNCS", id |-> j - 1,
                cstr |-> input] >>

\* C4 amended: the longer entry is returned as one punctuation token when no
\* proper prefix of it ends with a configured punctuation ("=" and "!=", in
\* either table order); when one does ("=" and "=="), the shorter entry is
\* returned first and the longer one is not returned.
C4_LongestSuffix ==
  \A j \in 1..Len(ml.puncs) :
    C4_Longer(j) /\ Finished =>
      IF C4_PuncInside
        THEN /\ Len(out) > 1
             /\ out[1].type = "TK_PUNCS" /\ Len(out[1].cstr) < Len(input)
             /\ \A i \in 1..Len(out) : out[i].cstr # input
        ELSE out = << [ret |-> "NEXT_MATCH", type |-> "TK_PUNCS", id |-> j - 1,
                       cstr |-> input] >>

C4_Witness ==
  ml = ML_Punc /\ input = <<33, 61>> /\ Finished /\ Len(out) = 1 /\ out[1].id = 1

\* C5: inside an open expression closed by "]", the byte "]" that follows a
\* backslash does not close the expression and is classified neither as a
\* delimiter nor as punctuation; an expression is closed only by an end
\* marker that does not follow a backslash.
C5_EscapedEndMarker ==
  /\ \A j \in 2..Len(ev) :
       ev[j - 1].cls = "escape" /\ ev[j - 1].st = "SYN_NO_DUMMY" /\ ev[j].b = 93 =>
         ev[j].cls \notin {"exp_end", "punc"} /\ ~ev[j].delim
  /\ \A j \in 1..Len(ev) :
       ev[j].cls = "exp_end" => j = 1 \/ ev[j - 1].cls # "escape"

\* C6: a call returns NEXT_ERR exactly when the token buffer is NULL, has
\* length zero, or is the input buffer, and such a call changes neither the
\* slice nor the token nor a byte of memory.
C6_MisuseReported ==
  [][ret' # "NONE" =>
       /\ ret' = "NEXT_ERR" <=>
            (tk.cstr = NULL \/ tk.len = 0 \/ tk.cstr = src.buffer)
       /\ ret' = "NEXT_ERR" => src' = src /\ tk' = tk /\ mem' = mem /\ out' = out
    ]_vars

C6_Witness ==
  ret = "NEXT_ERR" /\ tk.cstr # NULL /\ tk.len > 0 /\ tk.cstr = src.buffer

\* the len+1 bytes of the token buffer and the cap bytes of the chunk share a byte
Overlaps ==
  /\ tk.cstr # NULL /\ src.buffer # NULL
  /\ \E a \in tk.cstr..(tk.cstr + tk.len) :
       a \in src.buffer..(src.buffer + src.cap - 1)

\* C7: whenever the token buffer overlaps the current input chunk, a call
\* returns NEXT_ERR.
C7_OverlapCaught == Overlaps /\ ret # "NONE" => ret = "NEXT_ERR"

\* C8: a token handed over with NEXT_END, or a fragment handed over with
\* NEXT_CHUNK, is immediately followed by its NUL terminator (the token has
\* tk.idx bytes at the end of the input, a fragment has tk.len bytes).
C8_NullTerminated ==
  /\ ret = "NEXT_END" /\ tk.type # "TK_NOT_SET" => mem[tk.cstr + tk.idx] = 0
  /\ ret = "NEXT_CHUNK" => mem[tk.cstr + tk.len] = 0

\* C9: a zero byte that follows a plain byte of a keyword (outside escape
\* and expression) ends that keyword as a delimiter, and the call that
\* consumes it returns NEXT_ZTERM.
C9_ZeroByteStatus ==
  \A j \in 2..Len(ev) :
    /\ ev[j].b = 0 /\ ev[j].n > 1 /\ ev[j].st \in {"SYN_DUMMY", "SYN_DONE"}
    /\ ev[j - 1].cls = "plain" /\ ev[j - 1].b > SPACE
    => ev[j].cls = "delim" /\ ev[j].ret = "NEXT_ZTERM"

\* C10: every keyword token (fragments aside) carries the index of the
\* keyword-table entry equal to its content, and -1 when there is none.
C10_KeywordIdentity ==
  \A i \in 1..Len(out) :
    out[i].type = "TK_KEYWORD" /\ out[i].ret # "NEXT_CHUNK" =>
      out[i].id = KwId(ml.keywords, out[i].cstr)

\* the default delimiter set under flags f
DefaultDelim(b, f) == b < SPACE \/ (b = SPACE /\ ~HasFlag(f, PFLAG_IGSPACE))

\* byte b lies in one of the 1- or 2-byte inclusive ranges of table d
InRanges(d, b) ==
  \E i \in 1..Len(d) :
    IF Len(d[i]) = 2 THEN d[i][1] <= b /\ b <= d[i][2] ELSE b = d[i][1]

\* event j is a byte consumed outside the escape and expression states
Outside(j) == ev[j].st \notin {"SYN_ESCAPE", "SYN_NO_DUMMY", "SYN_NO_DUMMY__"}

\* C11: without the union flag, a byte consumed outside escape/expression is
\* a delimiter exactly when (empty range table) it is below 0x20, or it is
\* 0x20 and the space flag is clear, or (non-empty table) it lies in one of
\* the configured ranges.
C11_DelimiterSet ==
  ~HasFlag(flags, PFLAG_ALLDELIMS) =>
    \A j \in 1..Len(ev) :
      Outside(j) =>
        (ev[j].delim <=>
           IF Len(ml.delim_ranges) = 0
             THEN DefaultDelim(ev[j].b, flags)
             ELSE InRanges(ml.delim_ranges, ev[j].b))

\* C12: with a non-empty range table and the union flag set, a byte consumed
\* outside escape/expression is a delimiter exactly when it lies in one of
\* the configured ranges or in the default delimiter set.
C12_UnionOfDelimiters ==
  HasFlag(flags, PFLAG_ALLDELIMS) /\ Len(ml.delim_ranges) > 0 =>
    \A j \in 1..Len(ev) :
      Outside(j) =>
        (ev[j].delim <=>
           InRanges(ml.delim_ranges, ev[j].b) \/ DefaultDelim(ev[j].b, flags))

\* flag word f with one flag switched
Toggle(f, bit) == IF HasFlag(f, bit) THEN f - bit ELSE f + bit

\* C13: for every byte the run consumed, switching the space flag changes
\* the delimiter decision for no byte other than 0x20 (so bytes of the custom
\* ranges stay delimiters), and switching the union flag does not change the
\* decision for byte 0x20 when there is no range table.
C13_FlagsIndependent ==
  \A j \in 1..Len(ev) :
    LET s == [state |-> ev[j].st]
        D(f) == __handle_delims(ml, s, ev[j].b, f) # 0
    IN /\ ev[j].b # SPACE => D(Toggle(flags, PFLAG_IGSPACE)) = ev[j].delim
       /\ ev[j].b = SPACE /\ Len(ml.delim_ranges) = 0 =>
            D(Toggle(flags, PFLAG_ALLDELIMS)) = ev[j].delim

\* punctuation entry i is a longest one and the token buffer is exactly as
\* long as it
C14_AtCapacity(i) ==
  /\ Len(ml.puncs[i]) = tk.len
  /\ \A q \in 1..Len(ml.puncs) : Len(ml.puncs[q]) <= tk.len

\* the bytes of P were consumed as events j, j+1, ..., the first of them
\* stored at write index 0 outside the escape and expression states
C14_Occurs(j, P) ==
  /\ j >= 1 /\ j + Len(P) - 1 <= Len(ev)
  /\ ev[j].n = 1 /\ Outside(j)
  /\ \A k \in 1..Len(P) : ev[j + k - 1].b = P[k]

\* no call returned on an earlier byte of the occurrence, the call that
\* consumed its last byte returned a match, and the token handed over by
\* that call is the punctuation entry i
C14_MatchedAt(j, i) ==
  LET P == ml.puncs[i]
      k == j + Len(P) - 1
  IN /\ \A q \in j..(k - 1) : ev[q].ret = "NONE"
     /\ ev[k].ret = "NEXT_MATCH" /\ ev[k].cls = "punc"
     /\ k = Len(ev) /\ ret = "NEXT_MATCH" =>
          out[Len(out)] = [ret |-> "NEXT_MATCH", type |-> "TK_PUNCS",
                           id |-> i - 1, cstr |-> P]

\* some proper prefix of P ends with a configured punctuation
C14_PuncInside(P) ==
  \E k \in 1..(Len(P) - 1) : \E q \in 1..Len(ml.puncs) :
    IsSuffix(ml.puncs[q], SubSeq(P, 1, k))

\* C14 as stated: with a token buffer exactly as long as the longest
\* punctuation, every occurrence of that punctuation that begins at write
\* index 0 is returned as one punctuation match when its last byte is
\* consumed, no chunk status (nor any other) being returned before.
C14_BoundaryAlways ==
  \A i \in 1..Len(ml.puncs) :
    C14_AtCapacity(i) =>
      \A j \in 1..Len(ev) : C14_Occurs(j, ml.puncs[i]) => C14_MatchedAt(j, i)

\* C14 amended: the same, for a longest punctuation none of whose proper
\* prefixes ends with a configured punctuation.
C14_BoundaryNoInner ==
  \A i \in 1..Len(ml.puncs) :
    C14_AtCapacity(i) /\ ~C14_PuncInside(ml.puncs[i]) =>
      \A j \in 1..Len(ev) : C14_Occurs(j, ml.puncs[i]) => C14_MatchedAt(j, i)

\* "!=" right after the fragment "aa", in a token buffer of two bytes
C14_Witness ==
  /\ ml = ML_Punc /\ tk.len = 2 /\ input = <<97, 97, 33, 61>>
  /\ ret = "NEXT_MATCH" /\ Len(ev) = 4 /\ C14_Occurs(3, <<33, 61>>)
  /\ Len(out) = 2 /\ out[1].ret = "NEXT_CHUNK" /\ out[2].cstr = <<33, 61>>

\* the data cell the pointer returned by the last tape_get points at
C15_DataAt == {c \in tape_data : c.what = "data" /\ c.at = data_at.off}

\* the last tape_get answered as the claim says: for 1 <= k <= n the data of
\* the k-th appended buffer, for k > n NULL
C15_GetAnswered ==
  data_at.ret # "NONE" /\ data_at.index >= 1 =>
    IF data_at.index <= data_at.n
      THEN /\ data_at.ret = "PTR"
           /\ C15_DataAt = {[at |-> data_at.off, what |-> "data",
                             len |-> appended[data_at.index].len,
                             data |-> appended[data_at.index].data]}
      ELSE data_at.ret = "NULL"

\* C15: after n successful tape_append calls, tape_get (k) returns the data
\* of the k-th appended buffer for every 1 <= k <= n, its assertion holding,
\* and NULL for every k > n.
C15_TapeLookup == C15_GetAnswered

\* every buffer that was on the tape at the last tape_get is shorter than
\* BUF_MAX_LEN - sizeof (DBuffer)
C15_AllShort ==
  \A i \in 1..data_at.n : appended[i].len + SizeofDBuffer < BUF_MAX_LEN

\* the part of C15 that holds: the same, on tapes whose buffers are all
\* shorter than BUF_MAX_LEN - sizeof (DBuffer)
C15_TapeLookupShort == C15_AllShort => C15_GetAnswered

\* C16: after codem_set_ctrl_digit the buffer is accepted by codem_isvalidn,
\* its first nine characters are those it had before and its tenth is a
\* decimal digit; a second codem_set_ctrl_digit changes nothing.
C16_CtrlDigitRoundTrip ==
  /\ Len(code_hist) >= 2 =>
       /\ valid.called => valid.ret = 1
       /\ codem_isvalidn(code_hist[2]) = 1
       /\ SubSeq(code_hist[2], 1, 9) = SubSeq(code_hist[1], 1, 9)
       /\ isanumber(code_hist[2][10])
       /\ Len(code_hist[2]) = CODEM_LEN
  /\ Len(code_hist) >= 3 => code_hist[3] = code_hist[2]

\* 1234567890 became 1234567891, was set a second time and validated
C16_Witness ==
  /\ code_hist[1] = <<49, 50, 51, 52, 53, 54, 55, 56, 57, 48>>
  /\ Len(code_hist) = 3
  /\ code = <<49, 50, 51, 52, 53, 54, 55, 56, 57, 49>>
  /\ valid.called /\ valid.ret = 1

\* C17: the byte that follows an unescaped backslash is consumed in ESCAPE
\* and only such a byte is; the byte after it is consumed in the state that
\* was current before the backslash (or in CHUNK, when the buffer filled in
\* between); the lexer is never in ESCAPE after a byte consumed in ESCAPE.
C17_EscapeOneByte ==
  /\ \A j \in 2..Len(ev) :
       ev[j - 1].cls = "escape" =>
         ev[j].st = "SYN_ESCAPE" /\ ev[j].cls = "escaped"
  /\ \A j \in 1..Len(ev) :
       ev[j].st = "SYN_ESCAPE" => j >= 2 /\ ev[j - 1].cls = "escape"
  /\ \A j \in 3..Len(ev) :
       ev[j - 2].cls = "escape" /\ ev[j - 1].st = "SYN_ESCAPE" =>
         ev[j].st \in {ev[j - 2].st, "SYN_CHUNK"}
  /\ Len(ev) >= 1 /\ ev[Len(ev)].st = "SYN_ESCAPE" => src.state # "SYN_ESCAPE"

\* no fragment was returned so far
NoChunkYet == \A j \in 1..Len(ev) : ev[j].ret # "NEXT_CHUNK"

\* C18: (token buffer not overflowing) whenever a byte makes the lexer find
\* an expression begin marker, the marker is made of the last bytes consumed
\* and none of them was consumed in ESCAPE: an escaped begin marker neither
\* opens an expression nor splits the token, at once or later.
C18_EscapedBeginMarker ==
  NoChunkYet =>
    \A k \in 1..Len(ev) :
      ev[k].cls = "exp_begin" =>
        LET bg == ml.expression[ev[k].exp + 1].begin
            n  == Len(bg)
        IN /\ k >= n
           /\ \A i \in 1..n :
                ev[k - n + i].b = bg[i] /\ ev[k - n + i].st # "SYN_ESCAPE"

\* C19: the first byte consumed after a chunk status is stored at write
\* index 0 and is classified under the state that was in force when the
\* buffer filled: same delimiter decision, an escaped byte stays escaped,
\* and inside an open expression it is a plain byte, a backslash or the end
\* marker.
C19_ChunkResumption ==
  \A j \in 2..Len(ev) :
    ev[j - 1].ret = "NEXT_CHUNK" =>
      /\ ev[j].n = 1
      /\ ev[j].delim =
           (__handle_delims(ml, [state |-> ev[j - 1].now], ev[j].b, flags) # 0)
      /\ ev[j - 1].now = "SYN_ESCAPE" => ev[j].cls = "escaped"
      /\ ev[j - 1].now = "SYN_NO_DUMMY" =>
           ev[j].cls \in {"plain", "escape", "exp_end"}

\* event k found a begin marker and no event from k+1 to j-1 is the end of an
\* expression: the expression that event k opened is open when byte j comes
C20_OpenedBy(k, j) ==
  /\ k < j /\ ev[k].cls = "exp_begin"
  /\ \A i \in (k + 1)..(j - 1) : ev[i].cls # "exp_end"

\* C20: (token buffer not overflowing) a byte consumed while an expression
\* is open is never a delimiter, a punctuation or a begin marker; it is a
\* plain byte, a backslash, the byte after a backslash, or the end of the
\* expression, and then the bytes just consumed are the end marker of the
\* pair that opened the expression and the last of them does not follow a
\* backslash.
C20_ExpressionIsolation ==
  NoChunkYet =>
    \A j \in 1..Len(ev) : \A k \in 1..Len(ev) :
      C20_OpenedBy(k, j) =>
        /\ ~ev[j].delim
        /\ ev[j].cls \in {"plain", "escape", "escaped", "exp_end"}
        /\ ev[j].cls = "escaped" => ev[j - 1].cls = "escape"
        /\ ev[j - 1].cls = "escape" /\ j - 1 > k => ev[j].cls = "escaped"
        /\ ev[j].cls = "exp_end" =>
             LET en == ml.expression[ev[k].exp + 1].end
                 n  == Len(en)
             IN /\ ev[j].exp = ev[k].exp
                /\ j - n >= k
                /\ \A i \in 1..n : ev[j - n + i].b = en[i]
                /\ ev[j].ret = "NEXT_MATCH"

\* "[ ]" was consumed: the space inside is a plain byte, "]" ends the
\* expression
C20_Witness ==
  /\ ml = ML_Nest /\ input = <<91, 32, 93>> /\ Len(ev) = 3
  /\ ev[1].cls = "exp_begin" /\ ev[2].cls = "plain" /\ ev[3].cls = "exp_end"
  /\ ret = "NEXT_MATCH" /\ tk.type = "TK_EXPRESSION"

\* the last n bytes consumed, n being the write index after the last of them:
\* the token accumulated when the last byte was handled
C21_Accumulated ==
  LET k == Len(ev)
  IN [i \in 1..ev[k].n |-> ev[k - ev[k].n + i].b]

\* C21: a call that leaves the PUNC_RECOVER state returns a keyword match
\* whose content is the accumulated token without the punctuation at its
\* end; the call made in PUNC_RECOVER returns a punctuation match with the
\* bytes and the table index of that punctuation, consumes no input (read
\* index and consumed bytes unchanged) and restores the state in which the
\* last byte of the punctuation was consumed.
C21_PuncRecovery ==
  [][/\ src'.state = "SYN_PUNC__" /\ src.state # "SYN_PUNC__" =>
          LET p == ml.puncs[src'.last_punc_idx + 1]
              a == C21_Accumulated'
          IN /\ ret' = "NEXT_MATCH" /\ tk'.type = "TK_KEYWORD"
             /\ Len(a) > Len(p) /\ IsSuffix(p, a)
             /\ CStr(mem', tk'.cstr) = SubSeq(a, 1, Len(a) - Len(p))
             /\ out' = Append(out, Token([ret |-> ret', tk |-> tk', mem |-> mem']))
     /\ src.state = "SYN_PUNC__" =>
          /\ ret' = "NEXT_MATCH" /\ tk'.type = "TK_PUNCS"
          /\ tk'.id = src.last_punc_idx
          /\ CStr(mem', tk'.cstr) = ml.puncs[src.last_punc_idx + 1]
          /\ src'.idx = src.idx /\ ev' = ev /\ pos' = pos
          /\ src'.state = ev[Len(ev)].st
    ]_vars

\* "a!=" gave the keyword "a" (id 0) and then the punctuation "!=" (id 1)
C21_Witness ==
  /\ ml = ML_Punc /\ input = <<97, 33, 61>> /\ ret = "NEXT_MATCH"
  /\ Len(out) = 2
  /\ out[1].type = "TK_KEYWORD" /\ out[1].cstr = <<97>>
  /\ out[2].type = "TK_PUNCS" /\ out[2].cstr = <<33, 61>> /\ out[2].id = 1

\* byte k of the input is a one-byte begin marker found right behind the
\* plain bytes 1..k-1, which are the first token of the run
C22_Case(k) ==
  /\ k > 1 /\ k <= Len(ev)
  /\ ev[k].cls = "exp_begin" /\ ev[k].ret = "NEXT_MATCH"
  /\ ml.expression[ev[k].exp + 1].begin = <<ev[k].b>>
  /\ \A j \in 1..(k - 1) :
       ev[j].cls = "plain" /\ ev[j].ret = "NONE" /\ ~ev[j].delim

\* what is compared of a token: status, type and content, and the id unless
\* it is a fragment
C22_View(o) ==
  [i \in 1..Len(o) |->
     [ret |-> o[i].ret, type |-> o[i].type, cstr |-> o[i].cstr,
      id |-> IF o[i].ret = "NEXT_CHUNK" THEN 0 ELSE o[i].id]]

\* C22: (runs whose stream is that of the single-chunk run) when a begin
\* marker is found behind other bytes, the first token is a keyword match
\* made of those bytes, no input byte is read twice, and the tokens and
\* fragments that follow are those of the run whose input starts at the
\* begin marker.
C22_RecoverySymmetric ==
  \A k \in 1..Len(ev) :
    Finished /\ out = OneChunk /\ C22_Case(k) =>
      /\ Len(ev) <= Len(input)
      /\ out[1].ret = "NEXT_MATCH" /\ out[1].type = "TK_KEYWORD"
      /\ out[1].cstr = SubSeq(input, 1, k - 1)
      /\ C22_View(Tail(out)) = C22_View(OneChunkOf(SubSeq(input, k, Len(input))))

\* the table indices whose punctuation ends the accumulated token
C23_Matching ==
  {j \in 0..(Len(ml.puncs) - 1) : IsSuffix(ml.puncs[j + 1], C21_Accumulated)}

C23_Selected == ev # <<>> /\ ev[Len(ev)].cls = "punc"

\* C23: when a punctuation has been selected it is the longest entry that
\* ends the accumulated token, and of the entries of that length the one
\* with the smallest index.
C23_SmallestIndex ==
  C23_Selected =>
    /\ src.last_punc_idx \in C23_Matching
    /\ \A j \in C23_Matching :
         /\ Len(ml.puncs[j + 1]) <= Len(ml.puncs[src.last_punc_idx + 1])
         /\ Len(ml.puncs[j + 1]) = Len(ml.puncs[src.last_punc_idx + 1])
              => src.last_punc_idx <= j

\* end of input with exactly one byte in the token buffer, a byte taken
\* outside escape and expression that is no delimiter
C24_OneLeft ==
  /\ ret = "NEXT_END" /\ tk.idx = 1 /\ ev # <<>>
  /\ LET z == ev[Len(ev)]
     IN /\ z.cls = "plain" /\ z.n = 1 /\ ~z.delim /\ Outside(Len(ev))
        /\ ~DefaultDelim(z.b, flags) /\ ~InRanges(ml.delim_ranges, z.b)

\* C24: (keyword table not empty) at end of input one remaining byte that
\* is no delimiter is reported as a keyword made of that byte with the id
\* that the keyword table gives it; with nothing remaining the type is not
\* set.
C24_ShortRemainder ==
  /\ C24_OneLeft /\ ml.keywords # <<>> =>
       /\ tk.type = "TK_KEYWORD"
       /\ CStr(mem, tk.cstr) = <<ev[Len(ev)].b>>
       /\ tk.id = KwId(ml.keywords, <<ev[Len(ev)].b>>)
  /\ ret = "NEXT_END" /\ tk.idx = 0 => tk.type = "TK_NOT_SET"

\* C25: every store into the token buffer is at an offset in 0..len, and
\* the write index never exceeds len.
C25_TokenBufferSafe == ~oob /\ tk.idx <= tk.len

\* the contents of a stream with every run of fragments joined to the token
\* that follows it
RECURSIVE C26_Join(_, _, _)
C26_Join(o, i, pending) ==
  IF i > Len(o) THEN IF pending = <<>> THEN <<>> ELSE <<pending>>
  ELSE IF o[i].ret = "NEXT_CHUNK"
    THEN C26_Join(o, i + 1, pending \o o[i].cstr)
    ELSE <<pending \o o[i].cstr>> \o C26_Join(o, i + 1, <<>>)

\* C26: (tables without expressions) at the end of a run the fragments
\* joined to the token that follows them are the tokens that a buffer the
\* input cannot fill gives.
C26_ChunkRunsClosed ==
  Finished /\ ret = "NEXT_END" /\ ml.expression = <<>> =>
    C26_Join(out, 1, <<>>) = C26_Join(LargeBuffer, 1, <<>>)

C27_RecoverStates == {"SYN_PUNC__", "SYN_NO_DUMMY__"}

\* a call takes at least one input byte, or leaves the recover state it
\* started in, or asks for more input or reports the end
C27_CallProgress ==
  [][ret \notin {"NEXT_NEED_LOAD", "NEXT_END", "NEXT_ERR"} =>
       \/ Len(ev') > Len(ev) /\ src'.idx > src.idx
       \/ /\ src.state \in C27_RecoverStates
          /\ src'.state \notin C27_RecoverStates
       \/ ret' \in {"NEXT_NEED_LOAD", "NEXT_END"}]_vars

\* C27: every call makes progress (takes input, leaves a recover state, or
\* returns need-more-input or end), and a caller that refills and calls
\* again eventually receives the end status.
C27_ProgressAndTermination == C27_CallProgress /\ <>(ret = "NEXT_END")

C27_Witness ==
  /\ ret = "NEXT_END" /\ tk.len = 2 /\ input = <<97, 97, 97, 61>>
  /\ Len(out) = 3 /\ out[1].ret = "NEXT_CHUNK" /\ out[3].type = "TK_PUNCS"

RECURSIVE C28_Concat(_, _)
C28_Concat(o, i) ==
  IF i > Len(o) THEN <<>> ELSE o[i].cstr \o C28_Concat(o, i + 1)

\* the input from byte i on without its delimiter bytes outside expressions;
\* open is 0 outside, else the number of the open expression (one-byte
\* markers, no escape bytes)
RECURSIVE C28_Kept(_, _)
C28_Kept(i, open) ==
  IF i > Len(input) THEN <<>>
  ELSE LET b == input[i]
       IN IF open # 0
            THEN <<b>> \o C28_Kept(i + 1,
                            IF <<b>> = ml.expression[open].end THEN 0 ELSE open)
          ELSE IF DefaultDelim(b, flags) \/ InRanges(ml.delim_ranges, b)
            THEN C28_Kept(i + 1, 0)
          ELSE IF \E k \in 1..Len(ml.expression) : ml.expression[k].begin = <<b>>
            THEN <<b>> \o C28_Kept(i + 1,
                            CHOOSE k \in 1..Len(ml.expression) :
                              ml.expression[k].begin = <<b>>)
          ELSE <<b>> \o C28_Kept(i + 1, 0)

\* C28: (flags 0, inputs without NUL and escape bytes) at the end of a run the
\* contents of the emitted tokens and fragments, joined in order, are the
\* input without its delimiter bytes outside expressions.
C28_ByteConservation ==
  /\ ret = "NEXT_END" /\ flags = PFLAG_DEFAULT
  /\ \A i \in 1..Len(input) : input[i] \notin {0, BACKSLASH}
  => C28_Concat(out, 1) = C28_Kept(1, 0)

\* the blocks handed out so far: the non-NULL pointers returned
C29_Blocks == {i \in 1..Len(returned) : returned[i].p # NULL}

C29_InRegion(b) ==
  \E i \in 1..Len(arena.regions) :
    LET r == arena.regions[i]
    IN /\ r.at + SizeofRegion <= b.p
       /\ b.p + b.size <= r.at + SizeofRegion + r.cap

C29_Disjoint(a, b) ==
  a.size = 0 \/ b.size = 0 \/ a.p + a.size <= b.p \/ b.p + b.size <= a.p

\* the memory pointer of every region is at the bytes behind its header
C29_Regular ==
  \A i \in 1..Len(arena.regions) :
    arena.regions[i].mem = arena.regions[i].at + SizeofRegion

\* C29: (programs whose regions' memory pointers are at their own bytes)
\* every block returned lies inside the capacity of one region, no two
\* blocks overlap, and no region's occupied length exceeds its capacity.
C29_BlocksDisjointInBounds ==
  C29_Regular =>
    /\ \A i \in C29_Blocks : C29_InRegion(returned[i])
    /\ \A i, j \in C29_Blocks : i < j => C29_Disjoint(returned[i], returned[j])
    /\ \A i \in 1..Len(arena.regions) :
         arena.regions[i].len <= arena.regions[i].cap

C30_N == Len(opt.cseed) + Len(opt.wseed)

RECURSIVE C30_Pow(_, _)
C30_Pow(n, k) == IF k = 0 THEN 1 ELSE n * C30_Pow(n, k - 1)

\* the k-th tuple (from 0) in lexicographic order: the digits of k in base N
C30_Tuple(k) ==
  [i \in 1..depth |-> (k \div C30_Pow(C30_N, depth - i)) % C30_N]

C30_AllTuples == [k \in 1..C30_Pow(C30_N, depth) |-> C30_Tuple(k - 1)]

C30_Lines == Len(SelectSeq(outf, LAMBDA b : b = NEWLINE))

\* C30: perm returns, and when it has returned it has written N^d lines,
\* one for every tuple of d seed indices, in lexicographic order with the
\* last component varying fastest.
C30_CompleteEnumeration ==
  /\ [](perm_pc = "return" =>
         /\ tuples = C30_AllTuples
         /\ C30_Lines = C30_Pow(C30_N, depth))
  /\ <>(perm_pc = "return")

C30_Witness ==
  /\ perm_pc = "return" /\ depth = 3 /\ C30_N = 3
  /\ Len(opt.cseed) = 1 /\ Len(opt.wseed) = 2 /\ Len(tuples) = 27
  /\ tuples[2] = <<0, 0, 1>> /\ tuples[4] = <<0, 1, 0>>
  /\ tuples[27] = <<2, 2, 2>>

====
